---- MODULE Spec2Model ----
(***************************************************************************)
(* A model of contrib/nydus-test/framework/rafs.py: the runtime            *)
(* configuration builder (RafsConf), the image builder driver (RafsImage)  *)
(* and the daemon session (NydusDaemon).                                   *)
(*                                                                         *)
(* The specifications share the variables:                                 *)
(*   SpecConf    RafsConf setters and dump_rafs_conf                        *)
(*   SpecImage   RafsImage.set_backend, create_image, clean_up             *)
(*   SpecDaemon  NydusDaemon.mount, start, wait_mount, the polling loop,   *)
(*               umount, shutdown, apisock and set_mountpoint              *)
(*   SpecSession the same operations on a session whose image was built    *)
(*   SpecBlobEntry  the BlobEntryConf setters                              *)
(***************************************************************************)
EXTENDS Integers, Sequences, FiniteSets, TLC

VARIABLES
    \* ---- NydusAnchor
    fs_version,     \* anchor.fs_version
    dustbin,        \* paths handed to anchor.put_dustbin
    \* ---- RafsConf
    device_conf,    \* RafsConf._device_conf
    conf_file,      \* content of the config temp file: the documents it holds
    confCalls,      \* number of setter calls made so far (bounded)
    lastConfOp,     \* name of the last RafsConf operation
    lastBackend,    \* variant chosen by the last set_rafs_backend() call
    dumpStreak,     \* dump_rafs_conf() calls in a row, counted up to MaxDumpStreak
    \* ---- RafsImage
    image,          \* the attributes of one RafsImage
    files,          \* local files that exist
    ossUploads,     \* keys given to oss_helper.upload, in order
    ossRms,         \* keys given to oss_helper.rm, in order
    build,          \* the last create_image() call: its number, the backend
                    \* selected, the builder run it saw, how it ended
    produced,       \* paths any builder run has written
    cleanLog,       \* what each clean_up() call so far did, in order
    backendCalls,   \* number of set_backend() calls so far (bounded)
    \* ---- NydusDaemon
    p,              \* the process handle self.p
    pc,             \* where the session's caller is
    elapsed,        \* the local 'elapsed' of _wait_for_mount
    probeCalls,     \* calls of test_fn made by the current wait
    probeTrueAt,    \* the probe answers true from this call on (0: never)
    procExitAt,     \* p.poll() is not None from this iteration on (0: never)
    mountpoint,     \* self.mountpoint
    mounts,         \* the paths the session has last seen mounted: by a
                    \* probe of a wait, by is_mounted(), by an unmount
                    \* command that succeeded
    launches,       \* daemon processes launched by this session
    launch,         \* the last launch: the operation that made it, its
                    \* dump_config argument, the config file utils.run met
    orphans,        \* processes launched by this session that were not
                    \* terminated and whose handle self.p was overwritten
    returncode,     \* self.p.returncode: {} for None, else the exit code
    call,           \* the last umount() or shutdown() call: its number, the
                    \* launches made and the mount state when it began, the
                    \* requests it issued in order, how it ended
    \* ---- BlobEntryConf
    conf_base,      \* BlobEntryConf.conf_base
    blobCalls,      \* number of BlobEntryConf setter calls so far (bounded)
    lastBlobOp      \* the last BlobEntryConf setter call: its name, its argument

confVars   == <<device_conf, conf_file, confCalls, lastConfOp, lastBackend,
                dumpStreak>>
artifactVars == <<files, ossUploads, ossRms, build, produced, cleanLog,
                  backendCalls, dustbin>>
imageVars  == <<image, artifactVars>>
daemonVars == <<p, pc, elapsed, probeCalls, probeTrueAt, procExitAt, mountpoint,
                mounts, launches, launch, orphans, returncode, call>>
blobVars   == <<conf_base, blobCalls, lastBlobOp>>
vars == <<fs_version, confVars, imageVars, daemonVars, blobVars>>

----------------------------------------------------------------------------
\* Bounds of the model
MaxConfCalls  == 3      \* RafsConf setter calls in one behaviour
MaxDumpStreak == 2      \* consecutive dumps told apart
MaxImageCalls == 3      \* RafsImage calls (set_backend, create_image, clean_up)
                        \* in one behaviour
MaxBuilds     == 1      \* RafsImage.create_image calls in one behaviour
MaxSessionCalls == 2    \* launches (mount, start) and stop calls (umount,
                        \* shutdown) of one session in one behaviour
MaxProbeAt    == 2      \* latest small call index at which the probe turns true
MaxExitAt     == 2      \* latest small iteration at which the process is dead
MaxPolls      == 303    \* polling iterations followed in one wait
MaxBlobs      == 2      \* length of the builder's blob list
MaxBlobConfCalls == 3   \* BlobEntryConf setter calls in one behaviour

\* Program constants
TimeoutBudget == 300
DefaultThreads == 8

Absent == "<absent>"    \* an attribute or key that is not set
None   == "None"

----------------------------------------------------------------------------
\* Backend(enum.Enum)
OSS           == "oss"
REGISTRY      == "registry"
LOCALFS       == "localfs"
BACKEND_PROXY == "backend_proxy"
Backend == {OSS, REGISTRY, LOCALFS, BACKEND_PROXY}

----------------------------------------------------------------------------
\* NydusAnchor attributes read by the code (opaque values)
registry_url        == "anchor.registry_url"
registry_auth       == "anchor.registry_auth"
registry_namespace  == "anchor.registry_namespace"
oss_endpoint        == "anchor.oss_endpoint"
oss_ak_id           == "anchor.oss_ak_id"
oss_ak_secret       == "anchor.oss_ak_secret"
oss_bucket          == "anchor.oss_bucket"
backend_proxy_url   == "anchor.backend_proxy_url"
localfs_workdir     == "anchor.localfs_workdir"
blobcache_dir       == "anchor.blobcache_dir"

FsVersions == {5, 6}

----------------------------------------------------------------------------
(***************************************************************************)
(* RafsConf                                                                *)
(***************************************************************************)

\* every key the code can put under device.backend.config
BackendKeys == {"repo", "scheme", "host", "auth",
                "object_prefix", "endpoint", "access_key_id",
                "access_key_secret", "bucket_name",
                "blob_file", "dir"}

\* device.cache before enable_rafs_blobcache(): the attribute does not exist
NoCache == [type |-> Absent, work_dir |-> Absent, compressed |-> FALSE]

\* RafsConf.__init__: _rafs_conf_default turned into namespaces
rafs_conf_default ==
    [device |-> [backend |-> [type |-> OSS,
                              config |-> [k \in BackendKeys |-> Absent]],
                 cache |-> NoCache],
     mode |-> "direct",
     iostats_files |-> FALSE,
     fs_prefetch |-> [keys |-> {"enable"}, enable |-> FALSE,
                      threads_count |-> 0, prefetch_all |-> FALSE],
     digest_validate |-> Absent]

\* posixpath.join(a, b) for a relative, non-empty b and a without a trailing '/'
PosixJoin(a, b) == a \o "/" \o b

\* RafsConf._configure_rafs(k, v): exec("self._device_conf." + k + "=v");
\* the dotted path k is given as the tuple of its parts
configure_rafs(c, k, v) ==
    CASE Len(k) = 4 /\ SubSeq(k, 1, 3) = <<"device", "backend", "config">>
            -> [c EXCEPT !.device.backend.config[k[4]] = v]
      [] k = <<"device", "backend", "type">>
            -> [c EXCEPT !.device.backend.type = v]
      [] k = <<"fs_prefetch", "enable">>
            -> [c EXCEPT !.fs_prefetch.enable = v,
                         !.fs_prefetch.keys = @ \cup {"enable"}]
      [] k = <<"fs_prefetch", "threads_count">>
            -> [c EXCEPT !.fs_prefetch.threads_count = v,
                         !.fs_prefetch.keys = @ \cup {"threads_count"}]
      [] k = <<"fs_prefetch", "prefetch_all">>
            -> [c EXCEPT !.fs_prefetch.prefetch_all = v,
                         !.fs_prefetch.keys = @ \cup {"prefetch_all"}]
      [] k = <<"digest_validate">>
            -> [c EXCEPT !.digest_validate = v]
      [] k = <<"mode">>
            -> [c EXCEPT !.mode = v]

BKey(name) == <<"device", "backend", "config", name>>

\* the keyword arguments set_rafs_backend() looks at; Absent: not passed
NoKwargs == [repo |-> Absent, scheme |-> Absent, prefix |-> Absent,
             image_blob |-> Absent]

\* set_rafs_backend, the REGISTRY branch
registry_branch(c, kw) ==
    LET c1 == IF kw.repo # Absent
              THEN configure_rafs(c, BKey("repo"),
                                  PosixJoin(registry_namespace, kw.repo))
              ELSE c
        c2 == configure_rafs(c1, BKey("scheme"),
                             IF kw.scheme # Absent THEN kw.scheme ELSE "http")
        c3 == configure_rafs(c2, BKey("host"), registry_url)
    IN  configure_rafs(c3, BKey("auth"), registry_auth)

\* set_rafs_backend, the OSS branch
oss_branch(c, kw) ==
    LET c1 == IF kw.prefix # Absent
              THEN configure_rafs(c, BKey("object_prefix"), kw.prefix)
              ELSE c
        c2 == configure_rafs(c1, BKey("endpoint"), oss_endpoint)
        c3 == configure_rafs(c2, BKey("access_key_id"), oss_ak_id)
        c4 == configure_rafs(c3, BKey("access_key_secret"), oss_ak_secret)
    IN  configure_rafs(c4, BKey("bucket_name"), oss_bucket)

\* set_rafs_backend, the BACKEND_PROXY branch
backend_proxy_branch(c) ==
    LET c1 == configure_rafs(c, <<"device", "backend", "type">>, REGISTRY)
        c2 == configure_rafs(c1, BKey("scheme"), "http")
        c3 == configure_rafs(c2, BKey("repo"), "nydus")
    IN  configure_rafs(c3, BKey("host"), backend_proxy_url)

\* set_rafs_backend, the LOCALFS branch
localfs_branch(c, kw) ==
    IF kw.image_blob # Absent
    THEN configure_rafs(c, BKey("blob_file"), kw.image_blob)
    ELSE configure_rafs(c, BKey("dir"), localfs_workdir)

\* RafsConf.set_rafs_backend(backend_type, **kwargs): the new _device_conf
rafs_backend_conf(c, backend_type, kw) ==
    LET c0 == configure_rafs(c, <<"device", "backend", "type">>, backend_type)
        c1 == IF backend_type = REGISTRY THEN registry_branch(c0, kw) ELSE c0
        c2 == IF backend_type = OSS THEN oss_branch(c1, kw) ELSE c1
        c3 == IF backend_type = BACKEND_PROXY THEN backend_proxy_branch(c2) ELSE c2
    IN  IF backend_type = LOCALFS THEN localfs_branch(c3, kw) ELSE c3

\* RafsConf.enable_rafs_blobcache(is_compressed, work_dir): the new _device_conf
rafs_blobcache_conf(c, is_compressed, work_dir) ==
    [c EXCEPT !.device.cache =
        [type |-> "blobcache",
         work_dir |-> IF work_dir = None THEN blobcache_dir ELSE work_dir,
         compressed |-> is_compressed]]

\* RafsConf.enable_fs_prefetch(threads_count, prefetch_all): the new _device_conf
fs_prefetch_conf(c, threads_count, prefetch_all) ==
    LET c1 == configure_rafs(c, <<"fs_prefetch", "enable">>, TRUE)
        c2 == configure_rafs(c1, <<"fs_prefetch", "threads_count">>, threads_count)
    IN  configure_rafs(c2, <<"fs_prefetch", "prefetch_all">>, prefetch_all)

\* faulty variant of validation_conf: the format version is not looked at
validation_conf_any_version(c, version) ==
    configure_rafs(c, <<"digest_validate">>, "true")

\* RafsConf.set_registry_repo(repo): the new _device_conf
registry_repo_conf(c, repo) == configure_rafs(c, BKey("repo"), repo)

\* RafsConf.enable_files_iostats(): the new _device_conf
files_iostats_conf(c) == [c EXCEPT !.iostats_files = TRUE]

\* RafsConf.rafs_mem_mode(v): the new _device_conf
mem_mode_conf(c, v) == configure_rafs(c, <<"mode">>, v)

\* RafsConf.enable_validation(): the new _device_conf
validation_conf(c, version) ==
    IF version = 6 THEN c ELSE configure_rafs(c, <<"digest_validate">>, "true")

\* faulty variant of conf_before_dump: the format version is not looked at
conf_before_dump_as_is(c, version) == c

\* dump_rafs_conf, lines 229-231: format version 6 enables the blob cache
conf_before_dump(c, version) ==
    IF version = 6 THEN rafs_blobcache_conf(c, FALSE, None) ELSE c

\* utils.object_to_dict(copy.deepcopy(self._device_conf)) as written by json.dump:
\* only the attributes that exist become keys of the document
object_to_dict(c) ==
    [backend_type   |-> c.device.backend.type,
     backend_config |-> {<<k, c.device.backend.config[k]>> :
                            k \in {x \in BackendKeys :
                                      c.device.backend.config[x] # Absent}},
     cache          |-> IF c.device.cache.type = Absent
                        THEN {} ELSE {c.device.cache},
     mode           |-> c.mode,
     iostats_files  |-> c.iostats_files,
     fs_prefetch    |-> [keys |-> c.fs_prefetch.keys,
                         enable |-> c.fs_prefetch.enable,
                         threads_count |-> c.fs_prefetch.threads_count,
                         prefetch_all |-> c.fs_prefetch.prefetch_all],
     digest_validate |-> c.digest_validate]

\* faulty variant of file_after_dump: the file is not truncated before writing
file_after_dump_append(old, doc) == Append(old, doc)

\* dump_rafs_conf, lines 233-238: truncate(0), seek(0), json.dump, flush.
\* The file content is the sequence of documents found in it.
file_after_dump(old, doc) == <<doc>>

----------------------------------------------------------------------------
\* Arguments the RafsConf operations are called with
RepoArgs     == {Absent, "busybox"}
SchemeArgs   == {Absent, "https"}
PrefixArgs   == {Absent, "pfx"}
ImageBlobArgs == {Absent, "anchor.localfs_workdir/b1"}
WorkDirArgs  == {None, "/custom/cache"}
ThreadArgs   == {-1, 0, DefaultThreads}
RegistryRepoArgs == {"library/x"}
MemModeArgs  == {"direct", "cached"}

KwargsOf(b) ==
    CASE b = REGISTRY -> {[NoKwargs EXCEPT !.repo = r, !.scheme = s] :
                              r \in RepoArgs, s \in SchemeArgs}
      [] b = OSS      -> {[NoKwargs EXCEPT !.prefix = x] : x \in PrefixArgs}
      [] b = LOCALFS  -> {[NoKwargs EXCEPT !.image_blob = x] : x \in ImageBlobArgs}
      [] OTHER        -> {NoKwargs}

\* RafsConf.set_rafs_backend(backend_type, **kwargs)
set_rafs_backend ==
    /\ confCalls < MaxConfCalls
    /\ \E b \in Backend : \E kw \in KwargsOf(b) :
          /\ device_conf' = rafs_backend_conf(device_conf, b, kw)
          /\ lastBackend' = b
    /\ confCalls' = confCalls + 1
    /\ lastConfOp' = "set_rafs_backend"
    /\ dumpStreak' = 0
    /\ UNCHANGED <<fs_version, blobVars, conf_file, imageVars, daemonVars>>

\* RafsConf.enable_rafs_blobcache(is_compressed=False, work_dir=None)
enable_rafs_blobcache ==
    /\ confCalls < MaxConfCalls
    /\ \E is_compressed \in BOOLEAN, work_dir \in WorkDirArgs :
          device_conf' = rafs_blobcache_conf(device_conf, is_compressed, work_dir)
    /\ confCalls' = confCalls + 1
    /\ lastConfOp' = "enable_rafs_blobcache"
    /\ dumpStreak' = 0
    /\ UNCHANGED <<fs_version, blobVars, conf_file, lastBackend, imageVars, daemonVars>>

\* RafsConf.enable_fs_prefetch(threads_count=8, ..., prefetch_all=False)
enable_fs_prefetch ==
    /\ confCalls < MaxConfCalls
    /\ \E threads_count \in ThreadArgs, prefetch_all \in BOOLEAN :
          device_conf' = fs_prefetch_conf(device_conf, threads_count, prefetch_all)
    /\ confCalls' = confCalls + 1
    /\ lastConfOp' = "enable_fs_prefetch"
    /\ dumpStreak' = 0
    /\ UNCHANGED <<fs_version, blobVars, conf_file, lastBackend, imageVars, daemonVars>>

\* RafsConf.enable_validation()
enable_validation ==
    /\ confCalls < MaxConfCalls
    /\ device_conf' = validation_conf(device_conf, fs_version)
    /\ confCalls' = confCalls + 1
    /\ lastConfOp' = "enable_validation"
    /\ dumpStreak' = 0
    /\ UNCHANGED <<fs_version, blobVars, conf_file, lastBackend, imageVars, daemonVars>>

\* RafsConf.set_registry_repo(repo)
set_registry_repo ==
    /\ confCalls < MaxConfCalls
    /\ \E repo \in RegistryRepoArgs :
          device_conf' = registry_repo_conf(device_conf, repo)
    /\ confCalls' = confCalls + 1
    /\ lastConfOp' = "set_registry_repo"
    /\ dumpStreak' = 0
    /\ UNCHANGED <<fs_version, blobVars, conf_file, lastBackend, imageVars,
                   daemonVars>>

\* RafsConf.enable_files_iostats()
enable_files_iostats ==
    /\ confCalls < MaxConfCalls
    /\ device_conf' = files_iostats_conf(device_conf)
    /\ confCalls' = confCalls + 1
    /\ lastConfOp' = "enable_files_iostats"
    /\ dumpStreak' = 0
    /\ UNCHANGED <<fs_version, blobVars, conf_file, lastBackend, imageVars,
                   daemonVars>>

\* RafsConf.rafs_mem_mode(v)
rafs_mem_mode ==
    /\ confCalls < MaxConfCalls
    /\ \E v \in MemModeArgs : device_conf' = mem_mode_conf(device_conf, v)
    /\ confCalls' = confCalls + 1
    /\ lastConfOp' = "rafs_mem_mode"
    /\ dumpStreak' = 0
    /\ UNCHANGED <<fs_version, blobVars, conf_file, lastBackend, imageVars,
                   daemonVars>>

streak_after_dump ==
    IF dumpStreak < MaxDumpStreak THEN dumpStreak + 1 ELSE dumpStreak

\* RafsConf.dump_rafs_conf()
dump_rafs_conf ==
    /\ device_conf' = conf_before_dump(device_conf, fs_version)
    /\ conf_file' = file_after_dump(conf_file, object_to_dict(device_conf'))
    /\ lastConfOp' = "dump_rafs_conf"
    /\ dumpStreak' = streak_after_dump
    /\ UNCHANGED <<fs_version, blobVars, confCalls, lastBackend, imageVars, daemonVars>>

NextConf ==
    \/ set_rafs_backend
    \/ enable_rafs_blobcache
    \/ enable_fs_prefetch
    \/ enable_validation
    \/ set_registry_repo
    \/ enable_files_iostats
    \/ rafs_mem_mode
    \/ dump_rafs_conf

----------------------------------------------------------------------------
(***************************************************************************)
(* RafsImage                                                               *)
(***************************************************************************)

BlobIds == {"b1", "b2"}

\* paths the image works with
BootstrapPath == "bootstrap_name"          \* self.bootstrap_name / bootstrap_path
BlobAbsPath   == "blob_abs_path"           \* self.blob_abs_path
LocalBlob(id) == localfs_workdir \o "/" \o id
ProxyBlob(id) == "anchor.backend_proxy_blobs_dir/" \o id

\* RafsImage.__init__(..., clear_from_oss)
new_image(clear_from_oss) ==
    [backend_type         |-> None,
     params               |-> {},       \* of command_param_dict: blob, blob-dir
     oss_helper           |-> FALSE,    \* does the attribute exist
     clear_from_oss       |-> clear_from_oss,
     oss_uploader         |-> Absent,
     created              |-> FALSE,
     blob_id              |-> None,
     bootstrap_path       |-> Absent,
     localfs_backing_blob |-> Absent]

\* RafsImage.set_backend(type): the image afterwards
backend_image(img, type) ==
    LET i0 == [img EXCEPT !.backend_type = type]
    IN  CASE type = LOCALFS -> [i0 EXCEPT !.params = @ \cup {"blob-dir"}]
          [] type = OSS     -> [i0 EXCEPT !.params = @ \cup {"blob"},
                                          !.oss_helper = TRUE]
          [] OTHER          -> [i0 EXCEPT !.params = @ \cup {"blob"}]

\* the texts the builder can leave in the --output-json file:
\* not JSON at all, or a document with a list of at most MaxBlobs blob ids
\* (a blob id is a content digest: no id occurs twice in the list)
BlobLists == {l \in UNION {[1..n -> BlobIds] : n \in 0..MaxBlobs} :
                 \A i, j \in DOMAIN l : l[i] = l[j] => i = j}
BuilderOutputs == {[json |-> FALSE, blobs |-> <<>>]} \cup
                  {[json |-> TRUE, blobs |-> l] : l \in BlobLists}

\* one run of the external builder: its exit status, whether it wrote the
\* bootstrap, the id of the blob data it wrote (None: no blob), its output file.
\* A well-formed output names the blob that was written last.
BuilderRuns ==
    {r \in [returncode : {0, 1}, bootstrap : BOOLEAN,
            blob : {None} \cup BlobIds, output : BuilderOutputs] :
        (r.blob # None /\ r.output.json) =>
            (r.output.blobs # <<>> /\ r.output.blobs[Len(r.output.blobs)] = r.blob)}

\* where a builder started with these parameters puts a blob
BlobTargets(params, id) ==
    {BlobAbsPath : x \in params \cap {"blob"}} \cup
    {LocalBlob(id) : x \in params \cap {"blob-dir"}}

\* the files the builder run wrote, given the place it chose for the blob
BuilderWrites(run, target) ==
    (IF run.bootstrap THEN {BootstrapPath} ELSE {}) \cup
    (IF run.blob # None THEN target ELSE {})

\* faulty variant of build_passed: the exit status is not asserted
build_passed_any_status(run, fs) == BootstrapPath \in fs

\* create_image, lines 413-414: the two assertions after the builder exits
build_passed(run, fs) ==
    /\ run.returncode = 0
    /\ BootstrapPath \in fs

\* create_image, line 418: json.load(builder_output_json)["blobs"][-1]
output_parses(output) == output.json /\ Len(output.blobs) > 0
\* faulty variant of authoritative_blob: the first element instead of the last
authoritative_blob_first(blobs) == blobs[1]

authoritative_blob(blobs) == blobs[Len(blobs)]

\* faulty variant of persist_blob: the OSS upload does not look at oss_uploader
persist_blob_always_uploads(img, fs, ups) ==
    CASE img.backend_type = OSS ->
            [image |-> img, files |-> fs, raised |-> FALSE,
             ossUploads |-> Append(ups, img.blob_id)]
      [] img.backend_type = BACKEND_PROXY ->
            IF BlobAbsPath \in fs
            THEN [image |-> img, files |-> fs \cup {ProxyBlob(img.blob_id)},
                  raised |-> FALSE, ossUploads |-> ups]
            ELSE [image |-> img, files |-> fs, raised |-> TRUE,
                  ossUploads |-> ups]
      [] img.backend_type = LOCALFS ->
            [image |-> [img EXCEPT !.localfs_backing_blob = LocalBlob(img.blob_id)],
             files |-> fs, raised |-> FALSE, ossUploads |-> ups]
      [] OTHER ->
            [image |-> img, files |-> fs, raised |-> FALSE, ossUploads |-> ups]

\* create_image, lines 423-434: persist the blob as the backend asks
persist_blob(img, fs, ups) ==
    CASE img.backend_type = OSS ->
            [image |-> img, files |-> fs, raised |-> FALSE,
             ossUploads |-> IF img.oss_uploader = "util"
                            THEN Append(ups, img.blob_id) ELSE ups]
      [] img.backend_type = BACKEND_PROXY ->
            IF BlobAbsPath \in fs
            THEN [image |-> img, files |-> fs \cup {ProxyBlob(img.blob_id)},
                  raised |-> FALSE, ossUploads |-> ups]
            ELSE [image |-> img, files |-> fs, raised |-> TRUE,
                  ossUploads |-> ups]
      [] img.backend_type = LOCALFS ->
            [image |-> [img EXCEPT !.localfs_backing_blob = LocalBlob(img.blob_id)],
             files |-> fs, raised |-> FALSE, ossUploads |-> ups]
      [] OTHER ->
            [image |-> img, files |-> fs, raised |-> FALSE, ossUploads |-> ups]

\* create_image, lines 436-446: the paths put into the dustbin
registered_paths(img) ==
    {BootstrapPath, BlobAbsPath} \cup
    (IF img.localfs_backing_blob # Absent THEN {img.localfs_backing_blob} ELSE {})

\* RafsImage.create_image(clear_from_oss, oss_uploader) with the builder run
\* 'run' that wrote the files 'written': everything the call leaves behind
create_image_outcome(img, fs, dust, ups, clear_from_oss, oss_uploader, run, written) ==
    LET i1  == [img EXCEPT !.clear_from_oss = clear_from_oss,
                           !.oss_uploader = oss_uploader]
        fs1 == fs \cup written
        i2  == [i1 EXCEPT !.created = TRUE]
        i3  == [i2 EXCEPT !.blob_id = authoritative_blob(run.output.blobs),
                          !.bootstrap_path = BootstrapPath]
        per == persist_blob(i3, fs1, ups)
    IN  IF ~build_passed(run, fs1)
        THEN [image |-> i1, files |-> fs1, dustbin |-> dust, ossUploads |-> ups,
              result |-> "AssertionError"]
        ELSE IF ~output_parses(run.output)
        THEN [image |-> i2, files |-> fs1, dustbin |-> dust, ossUploads |-> ups,
              result |-> IF run.output.json THEN "IndexError" ELSE "JSONDecodeError"]
        ELSE IF per.raised
        THEN [image |-> per.image, files |-> per.files, dustbin |-> dust,
              ossUploads |-> per.ossUploads, result |-> "FileNotFoundError"]
        ELSE [image |-> per.image, files |-> per.files,
              dustbin |-> dust \cup registered_paths(per.image),
              ossUploads |-> per.ossUploads, result |-> "returned"]

\* os.unlink(path) wrapped in 'except FileNotFoundError: pass'
unlink_quiet(fs, path) == fs \ {path}

\* faulty variant of remote_delete_due: clear_from_oss is not looked at
remote_delete_due_any_owner(img) ==
    img.backend_type = OSS /\ img.oss_helper

\* clean_up, lines 489-492: the remote delete is asked for; without an
\* oss_helper attribute the AttributeError is swallowed
remote_delete_due(img) ==
    img.clear_from_oss /\ img.backend_type = OSS /\ img.oss_helper

\* RafsImage.clean_up(): everything the call leaves behind
clean_up_outcome(img, fs, rms) ==
    LET fs1 == IF img.bootstrap_path # Absent
               THEN fs \ {img.bootstrap_path} ELSE fs
        fs2 == IF img.localfs_backing_blob # Absent
               THEN unlink_quiet(fs1, img.localfs_backing_blob) ELSE fs1
        fs3 == unlink_quiet(fs2, BlobAbsPath)
        rm  == remote_delete_due(img)
    IN  IF img.bootstrap_path # Absent /\ img.bootstrap_path \notin fs
        THEN [files |-> fs, ossRms |-> rms, result |-> "FileNotFoundError",
              removed |-> {}, rm_issued |-> FALSE]
        ELSE [files |-> fs3,
              ossRms |-> IF rm THEN Append(rms, img.blob_id) ELSE rms,
              result |-> "returned", removed |-> fs \ fs3, rm_issued |-> rm]

NoBuild == [seq |-> 0, result |-> "none", backend |-> None,
            clear_given |-> FALSE,
            run |-> [returncode |-> 0, bootstrap |-> FALSE, blob |-> None,
                     output |-> [json |-> FALSE, blobs |-> <<>>]]]

\* RafsImage calls made so far
image_calls == backendCalls + build.seq + Len(cleanLog)

\* RafsImage.set_backend(type)
set_backend ==
    /\ image_calls < MaxImageCalls
    /\ \E type \in Backend : image' = backend_image(image, type)
    /\ backendCalls' = backendCalls + 1
    /\ UNCHANGED <<fs_version, blobVars, confVars, daemonVars, files, ossUploads, ossRms,
                   build, produced, dustbin, cleanLog>>

\* create_image, line 357: the uploaders the assertion lets in are 'util',
\* 'builder' and 'none'; the code tests only for 'util' (lines 426, 448), so
\* 'none' takes the branches 'builder' takes
OssUploaderArgs == {"util", "builder"}

\* create_image, line 340: the values the parameter clear_from_oss takes when
\* the caller gives the argument and when the default stands in for it
clear_from_oss_args(given, current) ==
    IF given THEN BOOLEAN ELSE {TRUE}

\* RafsImage.create_image(clear_from_oss=True, oss_uploader="util");
\* clear_given: the caller passed clear_from_oss
create_image ==
    /\ build.seq < MaxBuilds
    /\ image_calls < MaxImageCalls
    /\ \E clear_given \in BOOLEAN, oss_uploader \in OssUploaderArgs,
          run \in BuilderRuns :
       \E clear_from_oss \in clear_from_oss_args(clear_given, image.clear_from_oss) :
       \E target \in (IF run.blob = None \/ BlobTargets(image.params, run.blob) = {}
                      THEN {{}}
                      ELSE {{t} : t \in BlobTargets(image.params, run.blob)}) :
          LET written == BuilderWrites(run, target)
              out == create_image_outcome(image, files, dustbin, ossUploads,
                                          clear_from_oss, oss_uploader, run, written)
          IN  /\ image' = out.image
              /\ files' = out.files
              /\ dustbin' = out.dustbin
              /\ ossUploads' = out.ossUploads
              /\ produced' = produced \cup written
              /\ build' = [seq |-> build.seq + 1, result |-> out.result,
                           backend |-> image.backend_type,
                           clear_given |-> clear_given,
                           run |-> run]
    /\ UNCHANGED <<fs_version, blobVars, confVars, daemonVars, ossRms, backendCalls,
                   cleanLog>>

\* RafsImage.clean_up(); the log entry keeps the attributes the call read and
\* the numbers of set_backend() and create_image() calls made before it
clean_up ==
    /\ image_calls < MaxImageCalls
    /\ LET out == clean_up_outcome(image, files, ossRms)
       IN  /\ files' = out.files
           /\ ossRms' = out.ossRms
           /\ cleanLog' = Append(cleanLog,
                                 [result |-> out.result,
                                  removed |-> out.removed,
                                  rm_issued |-> out.rm_issued,
                                  backend_type |-> image.backend_type,
                                  clear_from_oss |-> image.clear_from_oss,
                                  blob_id |-> image.blob_id,
                                  after |-> <<backendCalls, build.seq>>])
    /\ UNCHANGED <<fs_version, blobVars, confVars, daemonVars, image, ossUploads, build,
                   produced, dustbin, backendCalls>>

NextImage ==
    \/ set_backend
    \/ create_image
    \/ clean_up

----------------------------------------------------------------------------
(***************************************************************************)
(* NydusDaemon                                                             *)
(***************************************************************************)

\* the stubs a readiness wait runs against: the call of test_fn from which it
\* answers true (0: never) and the iteration from which p.poll() reports the
\* process dead (0: never)
ProbeSchedules == (0..MaxProbeAt) \cup {TimeoutBudget}
ExitSchedules  == 0..MaxExitAt

\* test_fn(self.mountpoint) on its k-th call
probe_answer(trueAt, k) == trueAt # 0 /\ k >= trueAt

\* self.p.poll() is not None in the k-th iteration
process_dead(exitAt, k) == exitAt # 0 /\ k >= exitAt

\* faulty variant of budget_left: the comparison turned around
budget_left_inverted(e) == e > TimeoutBudget

\* _wait_for_mount, line 589: while elapsed < 300
budget_left(e) == e < TimeoutBudget

\* _wait_for_mount, line 594: elapsed -= 1
next_elapsed(e) == e - 1

\* faulty variant of wait_step: the process is never polled
wait_step_no_poll(e, probe, has_p, dead) ==
    IF probe THEN [pc |-> "mounted", elapsed |-> e]
    ELSE [pc |-> IF budget_left(next_elapsed(e)) THEN "polling"
                 ELSE "failed_timeout",
          elapsed |-> next_elapsed(e)]

\* _wait_for_mount, lines 590-596: one iteration of the loop and the test
\* that follows it; has_p: the session has a process handle
wait_step(e, probe, has_p, dead) ==
    IF probe THEN [pc |-> "mounted", elapsed |-> e]
    ELSE IF ~has_p THEN [pc |-> "AttributeError", elapsed |-> e]
    ELSE IF dead THEN [pc |-> "failed_premature", elapsed |-> e]
    ELSE [pc |-> IF budget_left(next_elapsed(e)) THEN "polling"
                 ELSE "failed_timeout",
          elapsed |-> next_elapsed(e)]

\* _wait_for_mount, lines 588-589: elapsed = 0 and the first test of the loop
wait_entry == IF budget_left(0) THEN "polling" ELSE "failed_timeout"

WaitDone == pc \in {"mounted", "failed_premature", "failed_timeout",
                    "AttributeError"}

\* faulty variant of session_image: the session marks its image as not built
session_image_unbuilt(img) == [img EXCEPT !.created = FALSE]

\* NydusDaemon.__init__, lines 563 and 584-585: the session keeps a reference
\* to the image and reads its bootstrap_path; the image as an operation of the
\* session leaves it
session_image(img) == img

\* the statuses a daemon process exits with: 0 and a failure
ExitCodes == {0, 1}

\* faulty variant of config_at_launch: the process is launched before the dump
config_at_launch_before_dump(before, after) == before

\* mount, lines 664-677: the config file as utils.run meets it; the dump, if
\* any, has been made before
config_at_launch(before, after) == after

\* mount, line 677, and start, line 694: 'self.p = p' drops the handle of the
\* process launched before; a process not yet seen dead is left running
orphans_after_launch(handle, n) == IF handle = "alive" THEN n + 1 ELSE n

NoLaunch == [by |-> "none", dump_config |-> FALSE, conf |-> <<>>]
NoCall   == [n |-> 0, op |-> "none", at |-> 0, mounted |-> FALSE,
             reqs |-> <<>>, result |-> "none"]

\* the paths a session's mountpoint is set to: anchor.mountpoint and another
AnchorMountpoint == "anchor.mountpoint"
MountpointArgs == {AnchorMountpoint, "mnt2"}

\* the socket paths given to apisock()
ApiSock == "api_sock"
ApiSockArgs == {ApiSock, "other_sock"}

\* what os.path.ismount(self.mountpoint) answers at a call: the mount table
\* changes without the session seeing it (the daemon mounts on its own after
\* start(), a mount goes away with its process)
MountStates == BOOLEAN

\* whether an 'umount -l' of a mounted path goes through
CommandResults == BOOLEAN

\* the mounted paths once path mp has been seen mounted or not
mounts_with(ms, mp, mounted) == IF mounted THEN ms \cup {mp} ELSE ms \ {mp}

\* utils.execute(["umount", "-l", mountpoint]): the command-success flag it
\* returns; the command fails on a path that is not mounted and may fail on
\* one that is
execute_ok(mounted, cmd_ok) == mounted /\ cmd_ok

\* umount, lines 710-712: the request and the assertion on its flag; mounted:
\* the state of the mountpoint at the call
umount_outcome(mounted, cmd_ok) ==
    LET ret == execute_ok(mounted, cmd_ok)
    IN  [reqs |-> <<"umount -l">>,
         ismount |-> mounted /\ ~ret,
         result |-> IF ret THEN "returned" ELSE "AssertionError"]

\* shutdown, line 740: assert self.p.returncode == 0
exit_verdict(rc) == IF rc = {0} THEN "returned" ELSE "AssertionError"

\* shutdown, lines 733-740; mounted: the answer of is_mounted() (729-730),
\* rc: the returncode the handle has already, code: the status a running
\* process exits with after terminate()
shutdown_outcome(mounted, cmd_ok, handle, rc, code) ==
    LET um    == umount_outcome(mounted, cmd_ok)
        pre   == IF mounted THEN um.reqs ELSE <<>>
        after == IF mounted THEN um.ismount ELSE mounted
        final == IF rc # {} THEN rc ELSE {code}
    IN  IF mounted /\ um.result # "returned"
        THEN [reqs |-> pre, ismount |-> after, p |-> handle,
              returncode |-> rc, terminated |-> FALSE, result |-> um.result]
        ELSE IF handle = "none"
        THEN [reqs |-> pre, ismount |-> after, p |-> handle,
              returncode |-> rc, terminated |-> FALSE,
              result |-> "AttributeError"]
        ELSE [reqs |-> pre \o <<"terminate", "wait">>, ismount |-> FALSE,
              p |-> "exited", returncode |-> final, terminated |-> TRUE,
              result |-> exit_verdict(final)]

\* launches and stop calls made so far
session_calls == launches + call.n

\* NydusDaemon.mount(wait_mount, dump_config), up to the first polling iteration
mount ==
    /\ pc # "polling"
    /\ session_calls < MaxSessionCalls
    /\ \E wait_mount \in BOOLEAN, dump_config \in BOOLEAN :
          /\ IF dump_config
             THEN /\ device_conf' = conf_before_dump(device_conf, fs_version)
                  /\ conf_file' = file_after_dump(conf_file,
                                                  object_to_dict(device_conf'))
                  /\ lastConfOp' = "dump_rafs_conf"
                  /\ dumpStreak' = streak_after_dump
             ELSE UNCHANGED <<device_conf, conf_file, lastConfOp, dumpStreak>>
          /\ p' = "alive"
          /\ returncode' = {}
          /\ launches' = launches + 1
          /\ orphans' = orphans_after_launch(p, orphans)
          /\ launch' = [by |-> "mount", dump_config |-> dump_config,
                        conf |-> config_at_launch(conf_file, conf_file')]
          /\ IF wait_mount
             THEN /\ pc' = wait_entry
                  /\ elapsed' = 0
                  /\ probeCalls' = 0
                  /\ \E t \in ProbeSchedules, x \in ExitSchedules :
                        /\ probeTrueAt' = t
                        /\ procExitAt' = x
             ELSE /\ pc' = "launched"
                  /\ UNCHANGED <<elapsed, probeCalls, probeTrueAt, procExitAt>>
    /\ image' = session_image(image)
    /\ UNCHANGED <<fs_version, blobVars, confCalls, lastBackend, artifactVars,
                   mountpoint, mounts, call>>

\* NydusDaemon.start()
start ==
    /\ pc # "polling"
    /\ session_calls < MaxSessionCalls
    /\ p' = "alive"
    /\ returncode' = {}
    /\ launches' = launches + 1
    /\ orphans' = orphans_after_launch(p, orphans)
    /\ launch' = [by |-> "start", dump_config |-> FALSE, conf |-> conf_file]
    /\ pc' = "launched"
    /\ UNCHANGED <<fs_version, blobVars, confVars, imageVars, elapsed, probeCalls,
                   probeTrueAt, procExitAt, mountpoint, mounts, call>>

\* the iterations from which p.poll() may report the process dead in a wait
\* on the handle the session holds: a process that has exited already is dead
\* from the first one
exit_schedules(handle) == IF handle = "exited" THEN {1} ELSE ExitSchedules

\* NydusDaemon.wait_mount(), up to the first polling iteration; it may be
\* called whenever no wait is running, in any state of the session
wait_mount ==
    /\ pc # "polling"
    /\ pc' = wait_entry
    /\ elapsed' = 0
    /\ probeCalls' = 0
    /\ \E t \in ProbeSchedules, x \in exit_schedules(p) :
          /\ probeTrueAt' = t
          /\ procExitAt' = x
    /\ UNCHANGED <<fs_version, blobVars, confVars, imageVars, p, mountpoint,
                   mounts, launches,
                   launch, orphans, returncode, call>>

\* one iteration of the loop of _wait_for_mount
poll_iteration ==
    /\ pc = "polling"
    /\ probeCalls < MaxPolls
    /\ LET k    == probeCalls + 1
           dead == p # "none" /\ process_dead(procExitAt, k)
           out  == wait_step(elapsed, probe_answer(probeTrueAt, k),
                             p # "none", dead)
       IN  /\ probeCalls' = k
           /\ mounts' = mounts_with(mounts, mountpoint,
                                    probe_answer(probeTrueAt, k))
           /\ pc' = out.pc
           /\ elapsed' = out.elapsed
           /\ p' = IF out.pc = "failed_premature" THEN "exited" ELSE p
           /\ IF out.pc = "failed_premature" /\ returncode = {}
              THEN \E code \in ExitCodes : returncode' = {code}
              ELSE returncode' = returncode
    /\ image' = session_image(image)
    /\ UNCHANGED <<fs_version, blobVars, confVars, artifactVars, probeTrueAt,
                   procExitAt, mountpoint, launches, launch, orphans, call>>

\* NydusDaemon.umount(); the command runs against the mount table as it is at
\* the call
umount ==
    /\ pc # "polling"
    /\ session_calls < MaxSessionCalls
    /\ \E mounted \in MountStates, cmd_ok \in CommandResults :
          LET out == umount_outcome(mounted, cmd_ok)
          IN  /\ mounts' = IF out.result = "returned"
                           THEN mounts_with(mounts, mountpoint, out.ismount)
                           ELSE mounts
              /\ pc' = IF out.result = "returned" THEN "unmounted" ELSE pc
              /\ call' = [n |-> call.n + 1, op |-> "umount", at |-> launches,
                          mounted |-> mounted, reqs |-> out.reqs,
                          result |-> out.result]
    /\ image' = session_image(image)
    /\ UNCHANGED <<fs_version, blobVars, confVars, artifactVars, p, elapsed,
                   probeCalls, probeTrueAt, procExitAt, mountpoint, launches,
                   launch, orphans, returncode>>

\* NydusDaemon.shutdown(); mounted: what is_mounted() answers at the call,
\* code: the status a process that is still running exits with once it has
\* been asked to terminate
shutdown ==
    /\ pc # "polling"
    /\ session_calls < MaxSessionCalls
    /\ \E mounted \in MountStates, cmd_ok \in CommandResults,
          code \in ExitCodes :
          LET out == shutdown_outcome(mounted, cmd_ok, p, returncode, code)
          IN  /\ mounts' = mounts_with(mounts, mountpoint, out.ismount)
              /\ p' = out.p
              /\ returncode' = out.returncode
              /\ pc' = IF out.terminated THEN "terminated" ELSE pc
              /\ call' = [n |-> call.n + 1, op |-> "shutdown",
                          at |-> launches, mounted |-> mounted,
                          reqs |-> out.reqs, result |-> out.result]
    /\ image' = session_image(image)
    /\ UNCHANGED <<fs_version, blobVars, confVars, artifactVars, elapsed,
                   probeCalls, probeTrueAt, procExitAt, mountpoint, launches,
                   launch, orphans>>

\* NydusDaemon.apisock(apisock): the path goes to the anchor's dustbin
apisock ==
    /\ pc # "polling"
    /\ \E path \in ApiSockArgs : dustbin' = dustbin \cup {path}
    /\ UNCHANGED <<fs_version, blobVars, confVars, image, files, ossUploads,
                   ossRms, build, produced, cleanLog, backendCalls, daemonVars>>

\* NydusDaemon.set_mountpoint(mp)
set_mountpoint ==
    /\ pc # "polling"
    /\ \E mp \in MountpointArgs : mountpoint' = mp
    /\ UNCHANGED <<fs_version, blobVars, confVars, imageVars, p, pc, elapsed,
                   probeCalls, probeTrueAt, procExitAt, mounts, launches,
                   launch, orphans, returncode, call>>

NextDaemon ==
    \/ apisock
    \/ set_mountpoint
    \/ mount
    \/ start
    \/ wait_mount
    \/ poll_iteration
    \/ umount
    \/ shutdown

----------------------------------------------------------------------------
(***************************************************************************)
(* BlobEntryConf                                                           *)
(***************************************************************************)

\* values of BLOB_CONF_TEMPLATE
TemplateId == "5a74e7f26a2970c36ffd8963a278ea11e1fd752705a13c2ec0cb20b40e2a6699"
TemplateMetadataPath ==
    "/var/lib/containerd-nydus-grpc/snapshots/3754/fs/image/image.boot"

\* BlobEntryConf.__init__: BLOB_CONF_TEMPLATE loaded into Namespaces, work_dir
\* set to the anchor's; config.repo is an attribute the template does not have
blob_conf_template ==
    [type      |-> "bootstrap",
     id        |-> TemplateId,
     domain_id |-> TemplateId,
     config    |-> [id             |-> TemplateId,
                    backend_type   |-> "registry",
                    backend_config |-> [readahead |-> FALSE,
                                        host      |-> "hub.byted.org",
                                        repo      |-> "gechangwei/java",
                                        auth      |-> "",
                                        scheme    |-> "http",
                                        proxy     |-> [fallback |-> FALSE]],
                    cache_type     |-> "fscache",
                    cache_config   |-> [work_dir |-> blobcache_dir],
                    metadata_path  |-> TemplateMetadataPath,
                    repo           |-> Absent],
     fs_prefetch |-> [enable         |-> FALSE,
                      prefetch_all   |-> FALSE,
                      threads_count  |-> 0,
                      merging_size   |-> 0,
                      bandwidth_rate |-> 0]]

\* the setters: the new conf_base
blob_set_type(c, t) == [c EXCEPT !.type = t]
blob_set_repo(c, repo) == [c EXCEPT !.config.repo = repo]
blob_set_metadata_path(c, path) == [c EXCEPT !.config.metadata_path = path]
blob_set_fsid(c, fsid) ==
    [c EXCEPT !.id = fsid, !.domain_id = fsid, !.config.id = fsid]
blob_set_backend(c) ==
    [c EXCEPT !.config.backend_config.host = backend_proxy_url,
              !.config.backend_config.repo = "nydus"]
blob_set_prefetch(c, threads_cnt) ==
    [c EXCEPT !.fs_prefetch.enable = TRUE,
              !.fs_prefetch.prefetch_all = TRUE,
              !.fs_prefetch.threads_count = threads_cnt]

\* BlobEntryConf.dumps(): json.dumps(conf_base, default=vars); every attribute
\* of a Namespace becomes a key of the document
dumps(c) ==
    [keys        |-> {"type", "id", "domain_id", "config", "fs_prefetch"},
     config_keys |-> {"id", "backend_type", "backend_config", "cache_type",
                      "cache_config", "metadata_path"} \cup
                     (IF c.config.repo # Absent THEN {"repo"} ELSE {}),
     backend_config_keys |-> {"readahead", "host", "repo", "auth", "scheme",
                              "proxy"},
     fs_prefetch_keys |-> {"enable", "prefetch_all", "threads_count",
                           "merging_size", "bandwidth_rate"},
     value       |-> c]

\* Arguments the BlobEntryConf setters are called with
BlobTypeArgs     == {"bootstrap", "blob"}
BlobRepoArgs     == {"busybox", "nydus"}
MetadataPathArgs == {"/tmp/image.boot"}
FsidArgs         == {"fsid1", "fsid2"}
ThreadsCntArgs   == {0, 4}

NoBlobOp == [op |-> "init", arg |-> None]

\* BlobEntryConf.set_type(t)
set_type ==
    /\ blobCalls < MaxBlobConfCalls
    /\ \E t \in BlobTypeArgs :
          /\ conf_base' = blob_set_type(conf_base, t)
          /\ lastBlobOp' = [op |-> "set_type", arg |-> t]
    /\ blobCalls' = blobCalls + 1
    /\ UNCHANGED <<fs_version, confVars, imageVars, daemonVars>>

\* BlobEntryConf.set_repo(repo)
set_repo ==
    /\ blobCalls < MaxBlobConfCalls
    /\ \E repo \in BlobRepoArgs :
          /\ conf_base' = blob_set_repo(conf_base, repo)
          /\ lastBlobOp' = [op |-> "set_repo", arg |-> repo]
    /\ blobCalls' = blobCalls + 1
    /\ UNCHANGED <<fs_version, confVars, imageVars, daemonVars>>

\* BlobEntryConf.set_metadata_path(path)
set_metadata_path ==
    /\ blobCalls < MaxBlobConfCalls
    /\ \E path \in MetadataPathArgs :
          /\ conf_base' = blob_set_metadata_path(conf_base, path)
          /\ lastBlobOp' = [op |-> "set_metadata_path", arg |-> path]
    /\ blobCalls' = blobCalls + 1
    /\ UNCHANGED <<fs_version, confVars, imageVars, daemonVars>>

\* BlobEntryConf.set_fsid(fsid)
set_fsid ==
    /\ blobCalls < MaxBlobConfCalls
    /\ \E fsid \in FsidArgs :
          /\ conf_base' = blob_set_fsid(conf_base, fsid)
          /\ lastBlobOp' = [op |-> "set_fsid", arg |-> fsid]
    /\ blobCalls' = blobCalls + 1
    /\ UNCHANGED <<fs_version, confVars, imageVars, daemonVars>>

\* BlobEntryConf.set_backend(); the name set_backend stands for
\* RafsImage.set_backend in this module
set_blob_backend ==
    /\ blobCalls < MaxBlobConfCalls
    /\ conf_base' = blob_set_backend(conf_base)
    /\ lastBlobOp' = [op |-> "set_backend", arg |-> None]
    /\ blobCalls' = blobCalls + 1
    /\ UNCHANGED <<fs_version, confVars, imageVars, daemonVars>>

\* BlobEntryConf.set_prefetch(threads_cnt=4); the argument is in conf_base
set_prefetch ==
    /\ blobCalls < MaxBlobConfCalls
    /\ \E n \in ThreadsCntArgs :
          /\ conf_base' = blob_set_prefetch(conf_base, n)
          /\ lastBlobOp' = [op |-> "set_prefetch", arg |-> None]
    /\ blobCalls' = blobCalls + 1
    /\ UNCHANGED <<fs_version, confVars, imageVars, daemonVars>>

NextBlobEntry ==
    \/ set_type
    \/ set_repo
    \/ set_metadata_path
    \/ set_fsid
    \/ set_blob_backend
    \/ set_prefetch

----------------------------------------------------------------------------
\* RafsConf.__init__: a new config, nothing dumped
conf_init ==
    /\ device_conf = rafs_conf_default
    /\ conf_file = <<>>
    /\ confCalls = 0
    /\ lastConfOp = "init"
    /\ lastBackend = None
    /\ dumpStreak = 0

\* BlobEntryConf.__init__
blob_init ==
    /\ conf_base = blob_conf_template
    /\ blobCalls = 0
    /\ lastBlobOp = NoBlobOp

\* NydusDaemon.__init__: a session with nothing launched
daemon_init ==
    /\ p = "none"
    /\ pc = "idle"
    /\ elapsed = 0
    /\ probeCalls = 0
    /\ probeTrueAt = 0
    /\ procExitAt = 0
    /\ mountpoint = AnchorMountpoint
    /\ mounts = {}
    /\ launches = 0
    /\ launch = NoLaunch
    /\ orphans = 0
    /\ returncode = {}
    /\ call = NoCall

Init ==
    /\ fs_version \in FsVersions
    /\ dustbin = {ApiSock}
    /\ conf_init
    /\ \E c \in BOOLEAN : image = new_image(c)
    /\ files = {}
    /\ ossUploads = <<>>
    /\ ossRms = <<>>
    /\ build = NoBuild
    /\ produced = {}
    /\ cleanLog = <<>>
    /\ backendCalls = 0
    /\ daemon_init
    /\ blob_init

\* a builder run that wrote the bootstrap and one blob and said so
GoodRun == [returncode |-> 0, bootstrap |-> TRUE, blob |-> "b1",
            output |-> [json |-> TRUE, blobs |-> <<"b1">>]]

\* the session's image was built before the session was made:
\* set_backend(b), then a create_image() that returned, b being OSS or LOCALFS
InitBuilt ==
    /\ fs_version = 6
    /\ conf_init
    /\ \E b \in {OSS, LOCALFS} :
          LET img     == backend_image(new_image(TRUE), b)
              written == BuilderWrites(GoodRun, BlobTargets(img.params, "b1"))
              out     == create_image_outcome(img, {}, {}, <<>>, TRUE, "util",
                                              GoodRun, written)
          IN  /\ image = out.image
              /\ files = out.files
              /\ dustbin = out.dustbin \cup {ApiSock}
              /\ ossUploads = out.ossUploads
              /\ produced = written
              /\ build = [seq |-> 1, result |-> out.result, backend |-> b,
                          clear_given |-> TRUE, run |-> GoodRun]
    /\ ossRms = <<>>
    /\ cleanLog = <<>>
    /\ backendCalls = 1
    /\ daemon_init
    /\ blob_init

Next == NextConf \/ NextImage \/ NextDaemon \/ NextBlobEntry

\* No RafsImage attribute depends on the format version: create_image only
\* hands it to the builder (lines 368-371), whose runs are all considered.
InitImage == Init /\ fs_version = 6

\* No session operation reads the image's clear_from_oss: the constructor's
\* default stands for both values.
InitDaemon == Init /\ image = new_image(TRUE)

SpecConf   == Init /\ [][NextConf]_vars
SpecImage  == InitImage /\ [][NextImage]_vars
SpecDaemon == InitDaemon /\ [][NextDaemon]_vars
SpecSession == InitBuilt /\ [][NextDaemon]_vars
SpecBlobEntry == Init /\ [][NextBlobEntry]_vars
Spec       == Init /\ [][Next]_vars

----------------------------------------------------------------------------
(***************************************************************************)
(* Properties                                                              *)
(***************************************************************************)

LastOf(seq) == seq[Len(seq)]

\* C1: Readiness timeout. When the probe never answers true and the process
\* never exits, the wait has ended with the failure 'mountpoint failed to come
\* up' once 300 polling iterations have been made; it does not poll further.
C1_ReadinessTimeout ==
    (p # "none" /\ probeTrueAt = 0 /\ procExitAt = 0
       /\ probeCalls >= TimeoutBudget)
    => pc = "failed_timeout"

\* C2: Readiness success. When the probe answers false on its first N-1 calls
\* and true on call N, 1 <= N <= 300, and the process stays alive, the wait is
\* still polling before call N and ends on call N exactly, mounted, with no
\* failure.
C2_ReadinessSuccess ==
    (p # "none" /\ probeTrueAt \in 1..TimeoutBudget /\ procExitAt = 0)
    => /\ (pc = "polling" => probeCalls < probeTrueAt)
       /\ (WaitDone => /\ pc = "mounted"
                       /\ probeCalls = probeTrueAt
                       /\ mounts # {})

\* C2 happens: a wait that ended mounted on the last call the budget allows
C2_Witness ==
    /\ pc = "mounted"
    /\ p = "alive"
    /\ procExitAt = 0
    /\ probeTrueAt = TimeoutBudget
    /\ probeCalls = TimeoutBudget

\* C3: Premature exit. When the process is dead before the probe ever answers
\* true, the wait goes on polling only until the first iteration that sees the
\* process dead and ends there with 'file system process terminated
\* prematurely', never with the timeout failure, the loop's budget not used up.
C3_PrematureExit ==
    (p # "none" /\ procExitAt # 0
       /\ (probeTrueAt = 0 \/ procExitAt < probeTrueAt))
    => /\ (pc = "polling" => probeCalls < procExitAt)
       /\ (WaitDone => /\ pc = "failed_premature"
                       /\ probeCalls = procExitAt
                       /\ budget_left(elapsed))

\* C3 happens: the process exited at once and the wait failed in iteration 1
C3_Witness ==
    /\ pc = "failed_premature"
    /\ p = "exited"
    /\ procExitAt = 1
    /\ probeCalls = 1

\* C4: Cleanup idempotence. No clean_up() call raises, and the second of two
\* clean_up() calls in a row removes no file and issues no remote delete.
C4_CleanupIdempotent ==
    /\ \A i \in DOMAIN cleanLog : cleanLog[i].result = "returned"
    /\ \A i \in DOMAIN cleanLog :
          (i >= 2 /\ cleanLog[i].after = cleanLog[i - 1].after)
             => /\ cleanLog[i].removed = {}
                /\ ~cleanLog[i].rm_issued

\* the fields of device.backend.config each variant may have and must have
VariantFields(v) ==
    CASE v = OSS     -> {"endpoint", "access_key_id", "access_key_secret",
                         "bucket_name", "object_prefix"}
      [] v = LOCALFS -> {"dir", "blob_file"}
      [] OTHER       -> {"scheme", "host", "repo", "auth"}
RequiredFields(v) ==
    CASE v = OSS      -> {"endpoint", "access_key_id", "access_key_secret",
                          "bucket_name"}
      [] v = REGISTRY -> {"scheme", "host", "auth"}
      [] v = BACKEND_PROXY -> {"scheme", "host", "repo"}
      [] OTHER        -> {}
DocKeys(doc) == {kv[1] : kv \in doc.backend_config}

\* C5: Backend variant exactness. In the document written by a dump, the keys
\* of device.backend.config are fields of the variant the last
\* set_rafs_backend() call selected, all its required fields are there, and no
\* field of another variant is.
C5_BackendVariantExact ==
    (lastConfOp = "dump_rafs_conf" /\ lastBackend # None)
    => /\ DocKeys(conf_file[1]) \subseteq VariantFields(lastBackend)
       /\ RequiredFields(lastBackend) \subseteq DocKeys(conf_file[1])
       /\ lastBackend = LOCALFS => DocKeys(conf_file[1]) # {}

\* C6: Serialization idempotence. A dump_rafs_conf() that follows another one
\* with no setter call in between leaves the config file as it was, holding
\* one document.
C6_DumpIdempotent ==
    [][(dumpStreak >= 1 /\ dumpStreak' = dumpStreak + 1)
         => (conf_file' = conf_file /\ Len(conf_file') = 1)]_vars

\* C6 happens: two dumps in a row, after some setter call
C6_Witness ==
    /\ dumpStreak = 2
    /\ confCalls > 0
    /\ Len(conf_file) = 1

\* C7: Format version 6 cache invariant. With fs_version 6, every document in
\* the config file has a device.cache of type blobcache with a work_dir.
C7_V6CacheDumped ==
    fs_version = 6
    => \A i \in DOMAIN conf_file :
          /\ conf_file[i].cache # {}
          /\ \A c \in conf_file[i].cache : /\ c.type = "blobcache"
                                           /\ c.work_dir # Absent

\* C7 happens: version 6, a dump made before any setter was called
C7_Witness ==
    /\ fs_version = 6
    /\ confCalls = 0
    /\ lastConfOp = "dump_rafs_conf"
    /\ conf_file # <<>>

\* C8: Teardown registration. Once create_image() has exited, every file a
\* builder run wrote (bootstrap, blob) is in the dustbin.
C8_TeardownRegistered ==
    build.seq > 0 => produced \subseteq dustbin

ProxyFiles(fs) == {ProxyBlob(id) : id \in BlobIds} \cap fs

\* C9: Build failure. A create_image() call whose builder exits non-zero, or
\* after which the bootstrap file does not exist, raises; it leaves created and
\* blob_id as they were (unset on an image not built before), uploads nothing
\* and copies nothing to the proxy blob directory.
C9_BuildFailure ==
    [][(build'.seq # build.seq
          /\ (build'.run.returncode # 0 \/ BootstrapPath \notin files'))
       => /\ build'.result = "AssertionError"
          /\ image'.created = image.created
          /\ image'.blob_id = image.blob_id
          /\ (~image.created => (~image'.created /\ image'.blob_id = None))
          /\ ossUploads' = ossUploads
          /\ ProxyFiles(files') = ProxyFiles(files)]_vars

\* C9 happens: an OSS image whose builder wrote the bootstrap and exited 1
C9_Witness ==
    /\ build.seq > 0
    /\ build.run.returncode = 1
    /\ build.run.bootstrap
    /\ build.backend = OSS
    /\ image.oss_uploader = "util"
    /\ build.result = "AssertionError"

\* C10: Authoritative blob identifier. After a create_image() that returned,
\* blob_id is the last element of the builder output's blob list, and that
\* value is the key of the OSS upload, the name of the proxy blob file and the
\* name of the localfs backing blob; a malformed output or an empty list makes
\* create_image() fail.
C10_AuthoritativeBlob ==
    /\ build.result = "returned" =>
          LET id == LastOf(build.run.output.blobs)
          IN  /\ image.blob_id = id
              /\ (build.backend = OSS /\ image.oss_uploader = "util")
                    => (ossUploads # <<>> /\ LastOf(ossUploads) = id)
              /\ build.backend = BACKEND_PROXY => ProxyBlob(id) \in files
              /\ build.backend = LOCALFS
                    => image.localfs_backing_blob = LocalBlob(id)
    /\ (build.seq > 0 /\ ~output_parses(build.run.output))
          => build.result # "returned"

\* C10 happens: a returned OSS build whose output lists two blobs
C10_Witness ==
    /\ build.result = "returned"
    /\ build.backend = OSS
    /\ image.oss_uploader = "util"
    /\ Len(build.run.output.blobs) = 2
    /\ image.blob_id = build.run.output.blobs[2]

\* C11: Persist-by-backend policy. A create_image() call that returns has done
\* the persistence action of the backend set_backend() selected and no other:
\* OSS appends one upload keyed by blob_id exactly when oss_uploader is 'util';
\* BACKEND_PROXY adds the file blob_id to the proxy blob directory; LOCALFS
\* records the backing blob path; REGISTRY (and no backend) does none of these.
C11_PersistByBackend ==
    [][(build'.seq # build.seq /\ build'.result = "returned")
       => LET id == image'.blob_id
              b  == build'.backend
          IN  /\ ossUploads' = IF b = OSS /\ image'.oss_uploader = "util"
                                THEN Append(ossUploads, id) ELSE ossUploads
              /\ ProxyFiles(files') = ProxyFiles(files) \cup
                     (IF b = BACKEND_PROXY THEN {ProxyBlob(id)} ELSE {})
              /\ image'.localfs_backing_blob =
                     IF b = LOCALFS THEN LocalBlob(id)
                     ELSE image.localfs_backing_blob]_vars

\* C11 happens: a returned OSS build whose upload was left to the builder
C11_Witness ==
    /\ build.result = "returned"
    /\ build.backend = OSS
    /\ image.oss_uploader = "builder"
    /\ image.blob_id \in BlobIds
    /\ ossUploads = <<>>

\* C12: Config persisted before launch. Whenever the running process was
\* launched by mount(), the config file it was started with held a document.
C12_ConfigPersistedBeforeLaunch ==
    launch.by = "mount" => launch.conf # <<>>

\* C12, amended: whenever the running process was launched by mount() with
\* dump_config true, the config file it was started with held one document,
\* the serialization of the session's config, written by that call's dump.
C12_DumpedWhenAsked ==
    (launch.by = "mount" /\ launch.dump_config)
    => /\ launch.conf = <<object_to_dict(device_conf)>>
       /\ launch.conf = conf_file

\* C12 happens: a version 6 session mounted with dump_config true
C12_Witness ==
    /\ launch.by = "mount"
    /\ launch.dump_config
    /\ fs_version = 6
    /\ Len(launch.conf) = 1
    /\ p = "alive"

\* C13: Shutdown protocol. A shutdown() on a session with a launched process
\* has issued the unmount request exactly when the mountpoint was mounted,
\* then the termination request, then the wait, in this order; it returned
\* exactly when the exit code is 0 and failed its assertion otherwise.
C13_ShutdownProtocol ==
    (call.op = "shutdown" /\ call.at = launches /\ launches > 0)
    => /\ call.reqs = (IF call.mounted THEN <<"umount -l">> ELSE <<>>)
                          \o <<"terminate", "wait">>
       /\ p = "exited"
       /\ returncode # {}
       /\ (call.result = "returned" <=> returncode = {0})
       /\ (returncode # {0} => call.result = "AssertionError")

\* C14: Unmount does not assert success. No umount() call raises, whatever
\* the unmount command reported.
C14_UmountNeverRaises ==
    call.op = "umount" => call.result = "returned"

\* C15: Single process per session. No process launched by the session is
\* left running without the session holding its handle.
C15_SingleProcess ==
    orphans = 0

\* C16: Lifecycle order. Once the readiness wait has failed or shutdown() has
\* ended, no step launches a process or takes the session to polling for
\* readiness or to mounted.
C16_LifecycleOrder ==
    [][(pc \in {"failed_premature", "failed_timeout", "terminated"})
       => (launches' = launches /\ pc' \notin {"polling", "mounted"})]_vars

\* C17: Validation is a no-op on format version 6. With fs_version 6,
\* digest_validate is unset in the config and in every document of the config
\* file, whatever setters and enable_validation() calls were made; with another
\* version, digest_validate is true once enable_validation() has been called.
C17_ValidationNoOpOnV6 ==
    /\ fs_version = 6 =>
          /\ device_conf.digest_validate = Absent
          /\ \A i \in DOMAIN conf_file : conf_file[i].digest_validate = Absent
    /\ (fs_version # 6 /\ lastConfOp = "enable_validation")
          => device_conf.digest_validate = "true"
    /\ lastConfOp = "dump_rafs_conf"
          => LastOf(conf_file).digest_validate = device_conf.digest_validate

\* C17 happens: version 6, enable_validation() called after other setters and
\* a dump
C17_Witness ==
    /\ fs_version = 6
    /\ lastConfOp = "enable_validation"
    /\ confCalls = MaxConfCalls
    /\ conf_file # <<>>
    /\ device_conf.fs_prefetch.enable

\* C18: Remote deletion only when owned. A clean_up() call asks the OSS helper
\* to delete only when the image's backend is OSS and clear_from_oss is true;
\* otherwise no remote delete has been issued.
C18_RemoteDeleteOnlyOwned ==
    LET issued == {i \in DOMAIN cleanLog : cleanLog[i].rm_issued}
    IN  /\ \A i \in issued : /\ cleanLog[i].backend_type = OSS
                             /\ cleanLog[i].clear_from_oss
                             /\ \E j \in DOMAIN ossRms :
                                   ossRms[j] = cleanLog[i].blob_id
        /\ Len(ossRms) = Cardinality(issued)

\* C18 happens: a built OSS image that owns its blob was cleaned up, and the
\* delete was issued under its blob id
C18_Witness ==
    /\ cleanLog # <<>>
    /\ cleanLog[1].rm_issued
    /\ image.created
    /\ image.blob_id \in BlobIds
    /\ ossRms = <<image.blob_id>>

\* C20: Prefetch invariant. Whenever fs_prefetch.enable is true, in the config
\* or in a document of the config file, threads_count is present and above 0.
C20_PrefetchInvariant ==
    /\ device_conf.fs_prefetch.enable
          => /\ "threads_count" \in device_conf.fs_prefetch.keys
             /\ device_conf.fs_prefetch.threads_count > 0
    /\ \A i \in DOMAIN conf_file :
          conf_file[i].fs_prefetch.enable
             => /\ "threads_count" \in conf_file[i].fs_prefetch.keys
                /\ conf_file[i].fs_prefetch.threads_count > 0

\* C19: Mount failure leaves the artifact intact. No step of a session (a
\* launch, a polling iteration that ends the wait in failure or not, umount(),
\* shutdown()) changes created, blob_id, bootstrap_path or backend_type of its
\* image, removes a file, issues a remote delete or removes a dustbin entry;
\* the image stays built with its bootstrap in place for another session.
C19_ArtifactIntact ==
    [][/\ image'.created = image.created
       /\ image'.blob_id = image.blob_id
       /\ image'.bootstrap_path = image.bootstrap_path
       /\ image'.backend_type = image.backend_type
       /\ files \subseteq files'
       /\ ossRms' = ossRms
       /\ ossUploads' = ossUploads
       /\ dustbin \subseteq dustbin'
       /\ image'.created
       /\ image'.bootstrap_path \in files']_vars

\* C19 happens: on a session that made a launch whose wait failed on a dead
\* process, and an umount() or shutdown() call, the built image is as it was
C19_Witness ==
    /\ pc = "failed_premature"
    /\ launches = 1
    /\ call.n > 0
    /\ image.created
    /\ image.blob_id = "b1"
    /\ image.bootstrap_path \in files
    /\ image.bootstrap_path \in dustbin

\* C21: Blob-entry schema is closed under the setters. After any sequence of
\* BlobEntryConf setters, the document dumps() yields has exactly the keys of
\* the schema, at the top level and under config, and after set_repo(r) the
\* repo of its backend configuration is r.
C21_BlobEntrySchemaClosed ==
    LET doc == dumps(conf_base)
    IN  /\ doc.keys = {"type", "id", "domain_id", "config", "fs_prefetch"}
        /\ doc.config_keys = {"id", "backend_type", "backend_config",
                              "cache_type", "cache_config", "metadata_path"}
        /\ lastBlobOp.op = "set_repo"
              => doc.value.config.backend_config.repo = lastBlobOp.arg

\* C22: Explicit cache settings survive serialization on version 6. With
\* fs_version 6, a dump_rafs_conf() that follows an enable_rafs_blobcache()
\* call writes a document whose device.cache is the cache that call
\* configured, its work_dir and compressed flag included.
C22_ExplicitCacheSurvives ==
    [][(fs_version = 6 /\ lastConfOp = "enable_rafs_blobcache"
          /\ lastConfOp' = "dump_rafs_conf")
       => conf_file'[1].cache = {device_conf.device.cache}]_vars

\* C23: Created implies complete. Whenever the image is marked created, its
\* blob_id and bootstrap_path are set and the bootstrap path is in the dustbin.
C23_CreatedImpliesComplete ==
    image.created
    => /\ image.blob_id # None
       /\ image.bootstrap_path # Absent
       /\ image.bootstrap_path \in dustbin

\* C24: Constructor's clear_from_oss is respected. A create_image() call that
\* is given no clear_from_oss argument leaves the image's clear_from_oss as it
\* was, so that the flag set at construction changes only by an explicit
\* argument and a clean_up() that follows deletes no remote blob of an image
\* constructed with clear_from_oss false.
C24_ConstructorFlagRespected ==
    [][(build'.seq # build.seq /\ ~build'.clear_given)
       => /\ image'.clear_from_oss = image.clear_from_oss
          /\ ~image.clear_from_oss => ~remote_delete_due(image')]_vars

====
